---- MODULE Spec2Model ----
(***************************************************************************)
(* Model of scopehal's S-parameter engine (SParameterVector, SParameters)  *)
(* and of the SWD symbol decoder declared in SWDDecoder.h.                 *)
(*                                                                         *)
(* Numbers.  Frequencies are naturals (Hz).  Amplitudes and phases are     *)
(* exact rationals <<n, d>> (d > 0, lowest terms); the float rounding of   *)
(* the C++ code is not modelled.  Phases are counted in units of pi/PI, so *)
(* the constant M_PI of the source is the integer PI.                      *)
(***************************************************************************)
EXTENDS Integers, Sequences, FiniteSets, TLC

\* ------------------------------------------------------------------------
\* Bounds of the model
\* ------------------------------------------------------------------------
MaxFreq == 2
MaxLen == 4
PhaseUnits == 4
MaxCascades == 1
MaxExtraHigh == 1
MaxShortBits == 5

\* ------------------------------------------------------------------------
\* Exact rational arithmetic
\* ------------------------------------------------------------------------
Abs(x) == IF x < 0 THEN -x ELSE x

RECURSIVE GCD(_, _)
GCD(a, b) == IF b = 0 THEN a ELSE GCD(b, a % b)

Rat(n, d) ==
    LET s == IF d < 0 THEN -1 ELSE 1
        g == GCD(Abs(n), Abs(d))
    IN  IF n = 0 THEN <<0, 1>> ELSE <<(s * n) \div g, (s * d) \div g>>

RInt(n) == <<n, 1>>
RAdd(a, b) == Rat(a[1] * b[2] + b[1] * a[2], a[2] * b[2])
RSub(a, b) == Rat(a[1] * b[2] - b[1] * a[2], a[2] * b[2])
RMul(a, b) == Rat(a[1] * b[1], a[2] * b[2])
RLt(a, b) == a[1] * b[2] < b[1] * a[2]
RLe(a, b) == a[1] * b[2] <= b[1] * a[2]
RAbs(a) == <<Abs(a[1]), a[2]>>
RMin(a, b) == IF RLe(a, b) THEN a ELSE b
RMax(a, b) == IF RLe(a, b) THEN b ELSE a

\* M_PI, in phase units
PI == PhaseUnits
RPI == RInt(PI)
R2PI == RInt(2 * PI)

\* ------------------------------------------------------------------------
\* SParameterPoint and the vectors of the model
\* ------------------------------------------------------------------------
SParameterPoint(f, a, p) == [m_frequency |-> f, m_amplitude |-> a, m_phase |-> p]

Freqs == 0 .. MaxFreq

\* (amplitude, phase) pairs of the sample points: phases at both ends of
\* [-pi, pi] so that neighbours differ by more than pi in both directions
PointValues == { <<Rat(1, 2), RInt(-PI)>>, <<RInt(2), RInt(PI - 1)>> }

Points == { SParameterPoint(f, v[1], v[2]) : f \in Freqs, v \in PointValues }

Sorted(v) == \A i \in 1 .. Len(v) - 1 : v[i].m_frequency <= v[i + 1].m_frequency

SeqsUpTo(S, n) == UNION { [1 .. k -> S] : k \in 0 .. n }

\* Vectors a caller can build with ConvertFromWaveforms, sorted by frequency
Vectors == { v \in SeqsUpTo(Points, MaxLen) : Sorted(v) }

\* What a read past the end of m_points may deliver
GarbagePoints ==
    { SParameterPoint(0, RInt(0), RInt(0)), SParameterPoint(1, RInt(7), RInt(5 * PI)) }

\* m_points[i] with the 0-based index of the source
At(v, i) == v[i + 1]
InRange(v, i) == i >= 0 /\ i < Len(v)

\* ------------------------------------------------------------------------
\* SParameterVector::InterpolatePhase
\* ------------------------------------------------------------------------
InterpolatePhase(phase_lo, phase_hi, frac) ==
    LET wrap == RLt(RPI, RAbs(RSub(phase_lo, phase_hi)))
        lo2 == IF wrap /\ RLt(phase_lo, phase_hi) THEN RAdd(phase_lo, R2PI) ELSE phase_lo
        hi2 == IF wrap /\ ~RLt(phase_lo, phase_hi) THEN RAdd(phase_hi, R2PI) ELSE phase_hi
        ret == RAdd(lo2, RMul(RSub(hi2, lo2), frac))
    IN  IF RLt(R2PI, ret) THEN RSub(ret, R2PI) ELSE ret

\* ------------------------------------------------------------------------
\* SParameterVector::InterpolatePoint
\* ------------------------------------------------------------------------
\* "Too high, move down": the pivot becomes the upper end
MoveDown(pos, last_lo, last_hi) ==
    [pos |-> last_lo + ((pos - last_lo) \div 2), last_lo |-> last_lo, last_hi |-> pos]

\* MoveUp with the lower end set one past the pivot
MoveUpPastPivot(pos, last_lo, last_hi) ==
    [pos |-> last_hi - ((last_hi - pos) \div 2), last_lo |-> pos + 1, last_hi |-> last_hi]

\* "Too low, move up": the pivot becomes the lower end
MoveUp(pos, last_lo, last_hi) ==
    [pos |-> last_hi - ((last_hi - pos) \div 2), last_lo |-> pos, last_hi |-> last_hi]

\* The while(true) loop.  fuel counts the iterations left before the model
\* gives up and reports that the loop did not end; reads collects the
\* indices of m_points the loop has read.
RECURSIVE BinarySearch(_, _, _, _, _, _, _)
BinarySearch(v, frequency, pos, last_lo, last_hi, fuel, reads) ==
    IF ~InRange(v, pos)
    THEN [last_lo |-> last_lo, last_hi |-> last_hi, reads |-> reads \cup {pos},
          terminated |-> TRUE, ub |-> TRUE]
    ELSE IF last_hi - last_lo <= 1
    THEN [last_lo |-> last_lo, last_hi |-> last_hi, reads |-> reads \cup {pos},
          terminated |-> TRUE, ub |-> FALSE]
    ELSE IF fuel = 0
    THEN [last_lo |-> last_lo, last_hi |-> last_hi, reads |-> reads \cup {pos},
          terminated |-> FALSE, ub |-> FALSE]
    ELSE LET n == IF At(v, pos).m_frequency > frequency
                  THEN MoveDown(pos, last_lo, last_hi)
                  ELSE MoveUp(pos, last_lo, last_hi)
         IN  BinarySearch(v, frequency, n.pos, n.last_lo, n.last_hi, fuel - 1,
                          reads \cup {pos})

\* The interpolation between the two points the search ended on
InterpolateBetween(v, frequency, last_lo, last_hi) ==
    LET freq_lo == At(v, last_lo).m_frequency
        freq_hi == At(v, last_hi).m_frequency
        dfreq == freq_hi - freq_lo
        \* dfreq > FLT_EPSILON: frequencies are whole Hz here
        frac == IF dfreq > 0 THEN Rat(frequency - freq_lo, dfreq) ELSE RInt(0)
        amp_lo == At(v, last_lo).m_amplitude
        amp_hi == At(v, last_hi).m_amplitude
    IN  SParameterPoint(frequency,
                        RAdd(amp_lo, RMul(RSub(amp_hi, amp_lo), frac)),
                        InterpolatePhase(At(v, last_lo).m_phase, At(v, last_hi).m_phase, frac))

\* The result of a call whose behaviour is undefined and that returns: the
\* point is made of whatever the read outside m_points delivered (g)
UndefinedPoint(frequency, g) == SParameterPoint(frequency, g.m_amplitude, g.m_phase)

\* InterpolatePoint(frequency) on vector v.  branch names the path taken;
\* ub says that the call read outside m_points, reads is every index read.
InterpolatePoint(v, frequency, g) ==
    LET len == Len(v)
        none == [branch |-> "ub", ub |-> TRUE, reads |-> {0}, last_lo |-> 0,
                 last_hi |-> len - 1, terminated |-> TRUE,
                 point |-> UndefinedPoint(frequency, g)]
    IN  IF len = 0
        THEN none
        ELSE IF frequency < At(v, 0).m_frequency
        THEN [none EXCEPT !.branch = "below", !.ub = FALSE,
                 !.point = SParameterPoint(frequency, At(v, 0).m_amplitude,
                              InterpolatePhase(RInt(0), At(v, 0).m_phase,
                                               Rat(frequency, At(v, 0).m_frequency)))]
        ELSE IF frequency > At(v, len - 1).m_frequency
        THEN [none EXCEPT !.branch = "above", !.ub = FALSE, !.reads = {0, len - 1},
                 !.point = SParameterPoint(frequency, RInt(0), RInt(0))]
        ELSE LET b == BinarySearch(v, frequency, len \div 2, 0, len - 1, len + 1,
                                   {0, len - 1})
             IN  IF b.ub \/ ~b.terminated
                 THEN [none EXCEPT !.branch = "search", !.ub = b.ub, !.reads = b.reads,
                          !.last_lo = b.last_lo, !.last_hi = b.last_hi,
                          !.terminated = b.terminated]
                 ELSE [branch |-> "search", ub |-> FALSE,
                       reads |-> b.reads \cup {b.last_lo, b.last_hi},
                       last_lo |-> b.last_lo, last_hi |-> b.last_hi, terminated |-> TRUE,
                       point |-> InterpolateBetween(v, frequency, b.last_lo, b.last_hi)]

\* ------------------------------------------------------------------------
\* SParameterVector::operator*=
\* ------------------------------------------------------------------------
\* One point of the left operand combined with the interpolated point
CascadePoint(us, point) ==
    LET sum == RAdd(us.m_phase, point.m_phase)
        p1 == IF RLt(sum, RInt(-PI)) THEN RAdd(sum, R2PI) ELSE sum
        p2 == IF RLt(RPI, p1) THEN RSub(p1, R2PI) ELSE p1
    IN  SParameterPoint(us.m_frequency, RMul(us.m_amplitude, point.m_amplitude), p2)

VectorCascade(lhsv, rhsv, g) ==
    [i \in 1 .. Len(lhsv) |->
        CascadePoint(lhsv[i], InterpolatePoint(rhsv, lhsv[i].m_frequency, g).point)]

\* The indices of rhs that the calls of InterpolatePoint read
VectorCascadeReads(lhsv, rhsv, g) ==
    UNION { InterpolatePoint(rhsv, lhsv[i].m_frequency, g).reads : i \in 1 .. Len(lhsv) }

\* Whether some InterpolatePoint call of the cascade reads outside rhs
VectorCascadeUB(lhsv, rhsv, g) ==
    \E i \in 1 .. Len(lhsv) : InterpolatePoint(rhsv, lhsv[i].m_frequency, g).ub

\* ------------------------------------------------------------------------
\* SParameterVector::GetGroupDelay
\* ------------------------------------------------------------------------
\* The index of the second point used
NeighborBin(bin) == bin + 1 + 1

\* The delay is (a.phase - b.phase) / (dfreq * 2 pi); with the phase in
\* units of pi/PI that is the rational below.  A zero dfreq gives a
\* non-finite float.
GetGroupDelay(v, bin, g) ==
    IF bin + 1 >= Len(v)
    THEN [ub |-> FALSE, reads |-> {}, early |-> TRUE, finite |-> TRUE, val |-> RInt(0)]
    ELSE LET a == At(v, bin)
             nb == NeighborBin(bin)
             b == IF InRange(v, nb) THEN At(v, nb) ELSE g
             dfreq == b.m_frequency - a.m_frequency
         IN  [ub |-> ~InRange(v, nb), reads |-> {bin, nb}, early |-> FALSE,
              finite |-> dfreq # 0,
              val |-> IF dfreq = 0 THEN RInt(0)
                      ELSE RMul(RSub(a.m_phase, b.m_phase), Rat(1, 2 * PI * dfreq))]

\* ------------------------------------------------------------------------
\* State
\* ------------------------------------------------------------------------
VARIABLES
    lhs,        \* SParameterVector: m_points of the left operand
    rhs,        \* SParameterVector: m_points of the vector under test / right operand
    obs,        \* what the last vector operation did and returned
    crashed,    \* the process was ended by an undefined access
    cascades,   \* number of cascades done so far
    model,      \* SParameters: m_nports and m_params
    file,       \* the file at the path given to SaveToFile
    netobs,     \* what the last SParameters operation did
    swd         \* the decoder: input bits, position, state, symbols

vecVars == <<lhs, rhs, obs, cascades>>
netVars == <<model, file, netobs>>
vars == <<lhs, rhs, obs, crashed, cascades, model, file, netobs, swd>>

ZeroPoint == SParameterPoint(0, RInt(0), RInt(0))

NoObs ==
    [op |-> "none", arg |-> 0, ub |-> FALSE, reads |-> {}, branch |-> "none",
     last_lo |-> 0, last_hi |-> 0, terminated |-> TRUE, point |-> ZeroPoint,
     early |-> FALSE, finite |-> TRUE, val |-> RInt(0), pre |-> <<>>, g |-> ZeroPoint]

\* Left operands of the vector cascade: no point, one point at the upper end
\* of the phase range, two points at both ends
LhsVectors ==
    { <<>>,
      << SParameterPoint(1, RInt(2), RInt(PI)) >>,
      << SParameterPoint(0, RInt(1), RInt(-PI)), SParameterPoint(MaxFreq, Rat(1, 2), RInt(PI)) >> }

\* The outcomes of a call: when its behaviour is defined (~ub) it returns;
\* when it reads or writes outside an object the process is ended (crash) or
\* the call goes on with some value g in place of the one read
Undefined(ub) ==
    IF ub
    THEN { [ub |-> TRUE, crash |-> c, g |-> g] :
             c \in BOOLEAN, g \in GarbagePoints }
    ELSE { [ub |-> FALSE, crash |-> FALSE, g |-> ZeroPoint] }

\* ------------------------------------------------------------------------
\* Operations on one vector
\* ------------------------------------------------------------------------
\* rhs.InterpolatePoint(frequency)
Interpolate ==
    /\ ~crashed
    /\ \E frequency \in 0 .. MaxFreq + 1, u \in Undefined(Len(rhs) = 0) :
         LET r == InterpolatePoint(rhs, frequency, u.g)
         IN  /\ crashed' = u.crash
             /\ obs' = [NoObs EXCEPT !.op = "interp", !.arg = frequency, !.ub = r.ub,
                           !.reads = r.reads, !.branch = r.branch, !.last_lo = r.last_lo,
                           !.last_hi = r.last_hi, !.terminated = r.terminated,
                           !.point = r.point]
    /\ UNCHANGED <<lhs, rhs, cascades, netVars, swd>>

\* lhs *= rhs
Cascade ==
    /\ ~crashed
    /\ cascades < MaxCascades
    /\ \E u \in Undefined(VectorCascadeUB(lhs, rhs, ZeroPoint)) :
         /\ crashed' = u.crash
         /\ lhs' = IF u.crash THEN lhs ELSE VectorCascade(lhs, rhs, u.g)
         /\ obs' = [NoObs EXCEPT !.op = "cascade", !.ub = u.ub,
                       !.reads = VectorCascadeReads(lhs, rhs, u.g), !.pre = lhs, !.g = u.g]
    /\ cascades' = cascades + 1
    /\ UNCHANGED <<rhs, netVars, swd>>

\* rhs.GetGroupDelay(bin)
GroupDelay ==
    /\ ~crashed
    /\ \E bin \in 0 .. MaxLen : \E u \in Undefined(GetGroupDelay(rhs, bin, ZeroPoint).ub) :
         LET r == GetGroupDelay(rhs, bin, u.g)
         IN  /\ crashed' = u.crash
             /\ obs' = [NoObs EXCEPT !.op = "groupdelay", !.arg = bin, !.ub = r.ub,
                           !.reads = r.reads, !.early = r.early, !.finite = r.finite,
                           !.val = r.val]
    /\ UNCHANGED <<lhs, rhs, cascades, netVars, swd>>

\* ------------------------------------------------------------------------
\* SParameters
\* ------------------------------------------------------------------------
MaxPorts == 2
MaxModelCascades == 1

SPair(d, s) == <<d, s>>
PortPairs(n) == { SPair(d, s) : d \in 1 .. n, s \in 1 .. n }

\* m_params with no entry
EmptyParams == [k \in {} |-> <<>>]

\* SParameters::SParameters()
DefaultModel == [m_nports |-> 0, m_params |-> EmptyParams]

\* SParameters::empty(): "make sure we have parameters to work with"
empty(m) == DOMAIN m.m_params = {}

\* SParameters::Clear(): every vector is deleted and the map emptied
Clear(m) == [m EXCEPT !.m_params = EmptyParams]

\* SParameters::Allocate(nports): a new vector is stored under every pair of
\* [1, nports] x [1, nports]; the other entries of m_params stay
Allocate(m, nports) ==
    [m_nports |-> nports,
     m_params |-> [k \in DOMAIN m.m_params \cup PortPairs(nports) |->
                      IF k \in PortPairs(nports) THEN <<>> ELSE m.m_params[k]]]

\* SParameters::operator*=.  branch is the if/else arm taken; ub says that
\* the call dereferenced an entry a map does not hold or read outside a
\* vector; g stands for what such an access delivers.
CascadeModel(l, r, g) ==
    IF empty(r)
    THEN [branch |-> 1, ub |-> FALSE, model |-> l]
    ELSE IF empty(l)
    THEN LET a == Allocate(l, r.m_nports)
         IN  [branch |-> 2,
              ub |-> \E k \in PortPairs(a.m_nports) : k \notin DOMAIN r.m_params,
              model |-> [a EXCEPT !.m_params =
                           [k \in DOMAIN a.m_params |->
                              IF k \notin PortPairs(a.m_nports) THEN a.m_params[k]
                              ELSE IF k \in DOMAIN r.m_params THEN r.m_params[k]
                              ELSE <<g>>]]]
    ELSE LET rv(k) == IF k \in DOMAIN r.m_params THEN r.m_params[k] ELSE <<g>>
             lv(k) == IF k \in DOMAIN l.m_params THEN l.m_params[k] ELSE <<>>
         IN  [branch |-> 3,
              ub |-> \E k \in PortPairs(l.m_nports) :
                        \/ k \notin DOMAIN r.m_params
                        \/ k \notin DOMAIN l.m_params
                        \/ VectorCascadeUB(lv(k), rv(k), g),
              model |-> [l EXCEPT !.m_params =
                           [k \in DOMAIN l.m_params \cup PortPairs(l.m_nports) |->
                              IF k \in PortPairs(l.m_nports)
                              THEN VectorCascade(lv(k), rv(k), g)
                              ELSE l.m_params[k]]]]

\* The file at the path: absent, or created with a header line for a unit,
\* rows of nine fields, and closed or not
NoFile == [exists |-> FALSE, unit |-> "", rows |-> 0, closed |-> FALSE]

FreqText(freqUnit) ==
    CASE freqUnit = "FREQ_HZ" -> "Hz"
      [] freqUnit = "FREQ_KHZ" -> "kHz"
      [] freqUnit = "FREQ_MHZ" -> "MHz"
      [] OTHER -> "GHz"

\* SParameters::SaveToFile.  openOk is whether fopen succeeds.  ub: a vector
\* the map does not hold is dereferenced, or s21, s12 or s22 is read past
\* its end; the file then is as fopen and the writes so far left it.
SaveToFile(m, f, format, freqUnit, openOk) ==
    IF m.m_nports # 2
    THEN [file |-> f, log |-> "error", ub |-> FALSE, written |-> FALSE]
    ELSE IF ~openOk
    THEN [file |-> f, log |-> "error", ub |-> FALSE, written |-> FALSE]
    ELSE LET warn == IF format # "FORMAT_MAG_ANGLE" THEN "warning" ELSE "none"
             missing == \E k \in PortPairs(2) : k \notin DOMAIN m.m_params
             n == IF missing THEN 0 ELSE Len(m.m_params[SPair(1, 1)])
             short == ~missing /\ \E k \in PortPairs(2) : Len(m.m_params[k]) < n
         IN  IF missing \/ short
             THEN [file |-> [exists |-> TRUE, unit |-> FreqText(freqUnit), rows |-> 0,
                             closed |-> FALSE],
                   log |-> warn, ub |-> TRUE, written |-> TRUE]
             ELSE [file |-> [exists |-> TRUE, unit |-> FreqText(freqUnit), rows |-> n,
                             closed |-> TRUE],
                   log |-> warn, ub |-> FALSE, written |-> TRUE]

\* Vectors loaded into a model with ConvertFromWaveforms
LoadVectors ==
    { << SParameterPoint(0, RInt(1), RInt(-PI)), SParameterPoint(2, Rat(1, 2), RInt(PI)) >> }

LoadAll(m, v) == [m EXCEPT !.m_params = [k \in DOMAIN m.m_params |-> v]]

\* Right operands of the model cascade, each built from the default model
\* with the operations of the class
RhsModels ==
    LET one == Allocate(DefaultModel, 1)
        two == Allocate(DefaultModel, 2)
    IN  { DefaultModel, one, two, Clear(two), Allocate(two, 1) }
        \cup { LoadAll(m, v) : m \in {one, two}, v \in LoadVectors }

NoNetObs ==
    [op |-> "none", arg |-> 0, pre |-> DefaultModel, rhs |-> DefaultModel, branch |-> 0,
     ub |-> FALSE, log |-> "none", fileBefore |-> NoFile, written |-> FALSE,
     reads |-> {}, len |-> 0, g |-> ZeroPoint, format |-> ""]

\* ------------------------------------------------------------------------
\* SWDDecoder.  The header declares the class, the symbol kinds and the
\* protocol constants; Refresh() and the values of the constants are not
\* part of the sources at hand.  The decoder below follows the protocol
\* rules of the specification; the constants carry the values of the ARM
\* debug interface (sent least significant bit first).
\* ------------------------------------------------------------------------
c_JTAG_TO_SWD_SEQ == 59294
c_SWD_TO_JTAG_SEQ == 59196
c_SWD_TO_DORMANT_SEQ == 58300
c_magic_seqlen == 16
c_reset_minseqlen == 50
c_magic_wakeuplen == 128
c_wakeup == <<25, 188, 14, 162, 227, 221, 175, 233, 134, 133, 45, 149, 98, 9, 243, 146>>

\* Field widths of a transaction
AddressBits == 2
AckBits == 3
DataBits == 32

RECURSIVE Pow2(_)
Pow2(n) == IF n = 0 THEN 1 ELSE 2 * Pow2(n - 1)

\* The len low bits of word, least significant first
Bits(word, len) == [k \in 1 .. len |-> (word \div Pow2(k - 1)) % 2]

WakeupBits ==
    [k \in 1 .. c_magic_wakeuplen |->
        (c_wakeup[((k - 1) \div 8) + 1] \div Pow2((k - 1) % 8)) % 2]

\* SWDSymbol(t, d)
SWDSymbol(t, d) == [m_stype |-> t, m_data |-> d]

\* bits[from .. from + n - 1]
Slice(bits, from, n) == [k \in 1 .. n |-> bits[from + k - 1]]

Avail(d, n) == d.pos + n - 1 <= Len(d.bits)

\* The pattern is matched bit for bit at the current position
Matches(d, pattern) ==
    /\ Avail(d, Len(pattern))
    /\ Slice(d.bits, d.pos, Len(pattern)) = pattern

\* Number of consecutive high bits from position p on
RECURSIVE HighRun(_, _)
HighRun(bits, p) ==
    IF p > Len(bits) \/ bits[p] = 0 THEN 0 ELSE 1 + HighRun(bits, p + 1)

\* Value of a field whose bits arrive least significant first
RECURSIVE FieldValue(_)
FieldValue(f) == IF Len(f) = 0 THEN 0 ELSE f[1] + 2 * FieldValue(Tail(f))

\* Even parity: the parity bit that makes the number of ones even
RECURSIVE EvenParity(_)
EvenParity(f) == IF Len(f) = 0 THEN 0 ELSE (f[1] + EvenParity(Tail(f))) % 2

\* The payload of a DATA symbol: the two 16-bit halves <<high, low>>
DataValue(f) ==
    << FieldValue(Slice(f, (DataBits \div 2) + 1, DataBits \div 2)),
       FieldValue(Slice(f, 1, DataBits \div 2)) >>

\* The decoder advanced by n bits into state st, with symbol sym appended
\* (none when sym is <<>>); req and data keep the bits that a parity covers
Advance(d, n, st, sym) ==
    [d EXCEPT !.pos = d.pos + n, !.state = st,
              !.symbols = IF sym = <<>> THEN d.symbols ELSE Append(d.symbols, sym[1]),
              !.emitted = Len(sym) > 0]

\* A search that drops the bits a magic sequence would have taken
SearchBitSkipsSequence(d) ==
    Advance(d, IF Avail(d, c_magic_seqlen) THEN c_magic_seqlen
               ELSE Len(d.bits) + 1 - d.pos, "SEARCH", <<>>)

\* A failed match of a magic sequence consumes nothing by itself: the bit at
\* the position is then taken alone, as a start bit when high, as idle when low
SearchBit(d) ==
    IF d.bits[d.pos] = 1
    THEN [Advance(d, 1, "AP_NDP", << SWDSymbol("TYPE_START", 1) >>) EXCEPT !.req = <<>>]
    ELSE Advance(d, 1, "SEARCH", <<>>)

\* Search state: line reset, wake-up and mode switch sequences, start bit
Search(d) ==
    LET run == HighRun(d.bits, d.pos)
    IN  IF run >= c_reset_minseqlen
        THEN Advance(d, run, "SEARCH", << SWDSymbol("TYPE_LINERESET", run) >>)
        ELSE IF Matches(d, WakeupBits)
        THEN Advance(d, c_magic_wakeuplen, "SEARCH", << SWDSymbol("TYPE_LEAVEDORMANT", 0) >>)
        ELSE IF Matches(d, Bits(c_JTAG_TO_SWD_SEQ, c_magic_seqlen))
        THEN Advance(d, c_magic_seqlen, "SEARCH", << SWDSymbol("TYPE_JTAGTOSWD", 0) >>)
        ELSE IF Matches(d, Bits(c_SWD_TO_JTAG_SEQ, c_magic_seqlen))
        THEN Advance(d, c_magic_seqlen, "SEARCH", << SWDSymbol("TYPE_SWDTOJTAG", 0) >>)
        ELSE IF Matches(d, Bits(c_SWD_TO_DORMANT_SEQ, c_magic_seqlen))
        THEN Advance(d, c_magic_seqlen, "SEARCH", << SWDSymbol("TYPE_SWDTODORMANT", 0) >>)
        ELSE SearchBit(d)

\* Field widths with an acknowledge of two bits
FieldWidthShortAck(st) ==
    CASE st = "ADDRESS" -> AddressBits
      [] st = "ACK" -> AckBits - 1
      [] st = "DATA" -> DataBits
      [] OTHER -> 1

\* Number of bits the field of a state takes
FieldWidth(st) ==
    CASE st = "ADDRESS" -> AddressBits
      [] st = "ACK" -> AckBits
      [] st = "DATA" -> DataBits
      [] OTHER -> 1

\* One step of the decoding loop of Refresh(): the symbol at the current
\* position is decoded and appended; when the input ends inside a field the
\* remaining bits are consumed without a symbol
Decode(d) ==
    LET st == d.state
        w == FieldWidth(st)
        f == Slice(d.bits, d.pos, w)
        b == d.bits[d.pos]
    IN  IF st = "SEARCH" THEN Search(d)
        ELSE IF ~Avail(d, w)
        THEN Advance(d, Len(d.bits) + 1 - d.pos, "SEARCH", <<>>)
        ELSE CASE st = "AP_NDP" ->
                    [Advance(d, 1, "R_NW", << SWDSymbol("TYPE_AP_NDP", b) >>)
                        EXCEPT !.req = d.req \o f]
               [] st = "R_NW" ->
                    [Advance(d, 1, "ADDRESS", << SWDSymbol("TYPE_R_NW", b) >>)
                        EXCEPT !.req = d.req \o f]
               [] st = "ADDRESS" ->
                    [Advance(d, w, "PARITY", << SWDSymbol("TYPE_ADDRESS", FieldValue(f)) >>)
                        EXCEPT !.req = d.req \o f]
               [] st = "PARITY" ->
                    IF b = EvenParity(d.req)
                    THEN Advance(d, 1, "STOP", << SWDSymbol("TYPE_PARITY_OK", b) >>)
                    ELSE Advance(d, 1, "SEARCH", << SWDSymbol("TYPE_PARITY_BAD", b) >>)
               [] st = "STOP" ->
                    IF b = 0
                    THEN Advance(d, 1, "PARK", << SWDSymbol("TYPE_STOP", b) >>)
                    ELSE Advance(d, 1, "SEARCH", << SWDSymbol("TYPE_ERROR", b) >>)
               [] st = "PARK" ->
                    IF b = 1
                    THEN Advance(d, 1, "TURNAROUND", << SWDSymbol("TYPE_PARK", b) >>)
                    ELSE Advance(d, 1, "SEARCH", << SWDSymbol("TYPE_ERROR", b) >>)
               [] st = "TURNAROUND" ->
                    Advance(d, 1, "ACK", << SWDSymbol("TYPE_TURNAROUND", 0) >>)
               [] st = "ACK" ->
                    Advance(d, w, "DATA", << SWDSymbol("TYPE_ACK", FieldValue(f)) >>)
               [] st = "DATA" ->
                    [Advance(d, w, "DATA_PARITY", << SWDSymbol("TYPE_DATA", DataValue(f)) >>)
                        EXCEPT !.req = f]
               [] st = "DATA_PARITY" ->
                    IF b = EvenParity(d.req)
                    THEN Advance(d, 1, "SEARCH", << SWDSymbol("TYPE_PARITY_OK", b) >>)
                    ELSE Advance(d, 1, "SEARCH", << SWDSymbol("TYPE_PARITY_BAD", b) >>)

\* The decoder before Refresh() has looked at the input
Decoder(bits) ==
    [bits |-> bits, pos |-> 1, state |-> "SEARCH", symbols |-> <<>>, req |-> <<>>,
     emitted |-> FALSE]

NoSwd == Decoder(<<>>)

\* Refresh() has reached the end of the input
Done == swd.pos > Len(swd.bits)

\* Refresh(): one iteration of the loop over the sampled bits
Refresh ==
    /\ ~Done
    /\ swd' = Decode(swd)
    /\ UNCHANGED <<crashed, vecVars, netVars>>

\* ------------------------------------------------------------------------
\* Operations on the network model
\* ------------------------------------------------------------------------
\* model.Allocate(nports)
CallAllocate ==
    /\ ~crashed
    /\ \E nports \in 1 .. MaxPorts :
         /\ model' = Allocate(model, nports)
         /\ netobs' = [NoNetObs EXCEPT !.op = "Allocate", !.arg = nports]
    /\ UNCHANGED <<file, crashed, vecVars, swd>>

\* model.Clear()
CallClear ==
    /\ ~crashed
    /\ model' = Clear(model)
    /\ netobs' = [NoNetObs EXCEPT !.op = "Clear"]
    /\ UNCHANGED <<file, crashed, vecVars, swd>>

\* model[SPair(d, s)].ConvertFromWaveforms(wmag, wang)
CallConvertFromWaveforms ==
    /\ ~crashed
    /\ \E k \in DOMAIN model.m_params, v \in LoadVectors :
         /\ model' = [model EXCEPT !.m_params[k] = v]
         /\ netobs' = [NoNetObs EXCEPT !.op = "ConvertFromWaveforms"]
    /\ UNCHANGED <<file, crashed, vecVars, swd>>

\* model *= rhs
CallCascade ==
    /\ ~crashed
    /\ cascades < MaxModelCascades
    /\ \E r \in RhsModels : \E u \in Undefined(CascadeModel(model, r, ZeroPoint).ub) :
         LET c == CascadeModel(model, r, u.g)
         IN  /\ crashed' = u.crash
             /\ model' = IF u.crash THEN model ELSE c.model
             /\ netobs' = [NoNetObs EXCEPT !.op = "cascade", !.pre = model, !.rhs = r,
                              !.branch = c.branch, !.ub = c.ub, !.g = u.g]
    /\ cascades' = cascades + 1
    /\ UNCHANGED <<file, lhs, rhs, obs, swd>>

\* model.SaveToFile(path, format, freqUnit)
CallSaveToFile ==
    /\ ~crashed
    /\ \E format \in {"FORMAT_MAG_ANGLE", "FORMAT_DB_ANGLE"},
          freqUnit \in {"FREQ_HZ", "FREQ_GHZ"}, openOk \in BOOLEAN, crash \in BOOLEAN :
         LET r == SaveToFile(model, file, format, freqUnit, openOk)
         IN  /\ crash => r.ub
             /\ crashed' = crash
             /\ file' = r.file
             /\ netobs' = [NoNetObs EXCEPT !.op = "SaveToFile", !.ub = r.ub,
                              !.log = r.log, !.fileBefore = file, !.written = r.written,
                              !.format = format]
    /\ UNCHANGED <<model, vecVars, swd>>

\* ------------------------------------------------------------------------
\* The specifications
\* ------------------------------------------------------------------------
\* The network model, from default construction
Init ==
    /\ model = DefaultModel
    /\ file = NoFile
    /\ netobs = NoNetObs
    /\ crashed = FALSE
    /\ lhs = <<>> /\ rhs = <<>> /\ obs = NoObs /\ cascades = 0
    /\ swd = NoSwd

Next ==
    \/ CallAllocate
    \/ CallClear
    \/ CallConvertFromWaveforms
    \/ CallCascade
    \/ CallSaveToFile

Spec == Init /\ [][Next]_vars

\* Two vectors, the right one any sorted vector within the bounds
InitVec ==
    /\ lhs \in LhsVectors
    /\ rhs \in Vectors
    /\ obs = NoObs
    /\ cascades = 0
    /\ crashed = FALSE
    /\ model = DefaultModel /\ file = NoFile /\ netobs = NoNetObs
    /\ swd = NoSwd

NextVec ==
    \/ Interpolate
    \/ Cascade
    \/ GroupDelay

SpecVec == InitVec /\ [][NextVec]_vars

\* ------------------------------------------------------------------------
\* Input bit streams of the decoder
\* ------------------------------------------------------------------------
Ones(n) == [k \in 1 .. n |-> 1]

\* The eight bits of a request: start, APnDP, RnW, A[2:3], parity, stop, park
Request(apndp, rnw, addr) ==
    <<1, apndp, rnw>> \o Bits(addr, AddressBits)
        \o << EvenParity(<<apndp, rnw>> \o Bits(addr, AddressBits)), 0, 1 >>

DataWord(low, high) == Bits(low, DataBits \div 2) \o Bits(high, DataBits \div 2)

DataWords == { DataWord(0, 0), DataWord(1, 0), DataWord(23130, 32769) }

ReadParams ==
    [resetLen : c_reset_minseqlen .. c_reset_minseqlen + MaxExtraHigh,
     apndp : {0, 1}, addr : 0 .. 3, trn : {0, 1}, data : DataWords, dpar : {0, 1}]

\* Line reset, JTAG-to-SWD, a read request, turnaround, ACK = 0b001, 32 data
\* bits and the data parity bit
ReadStream(p) ==
    Ones(p.resetLen) \o Bits(c_JTAG_TO_SWD_SEQ, c_magic_seqlen)
        \o Request(p.apndp, 1, p.addr) \o <<p.trn>> \o Bits(1, AckBits)
        \o p.data \o <<p.dpar>>

WellFormedReads == { ReadStream(p) : p \in ReadParams }

\* Streams that get one bit flipped or are cut short
BaseReads ==
    { ReadStream(p) : p \in { q \in ReadParams :
          q.resetLen = c_reset_minseqlen /\ q.trn = 0 /\ q.addr = 1
              /\ q.data = DataWord(1, 0) /\ q.dpar = 1 } }

Flip(bits, i) == [bits EXCEPT ![i] = 1 - @]

FlippedReads == { Flip(b, i) : b \in BaseReads, i \in 1 .. c_reset_minseqlen + 61 }

TruncatedReads ==
    { SubSeq(b, 1, n) : b \in BaseReads, n \in c_reset_minseqlen .. c_reset_minseqlen + 60 }

\* A line reset followed by one of the other mode switch sequences
ModeSwitches ==
    { Ones(c_reset_minseqlen) \o m \o <<0, 0>> :
        m \in { Bits(c_SWD_TO_JTAG_SEQ, c_magic_seqlen),
                Bits(c_SWD_TO_DORMANT_SEQ, c_magic_seqlen),
                <<0>> \o WakeupBits } }

ShortStreams == SeqsUpTo({0, 1}, MaxShortBits)

Streams ==
    WellFormedReads \cup FlippedReads \cup TruncatedReads \cup ModeSwitches
        \cup ShortStreams

\* The decoder on any of the input streams
InitSWD ==
    /\ swd \in { Decoder(b) : b \in Streams }
    /\ crashed = FALSE
    /\ lhs = <<>> /\ rhs = <<>> /\ obs = NoObs /\ cascades = 0
    /\ model = DefaultModel /\ file = NoFile /\ netobs = NoNetObs

NextSWD == Refresh

\* Refresh() runs to the end on the calling thread
SpecSWD == InitSWD /\ [][NextSWD]_vars /\ WF_vars(NextSWD)

\* One vector, any sorted vector within the bounds
InitInterp ==
    /\ InitVec
    /\ lhs = <<>>

NextInterp ==
    \/ Interpolate
    \/ GroupDelay

SpecInterp == InitInterp /\ [][NextInterp]_vars

\* ------------------------------------------------------------------------
\* Properties of the vector operations
\* ------------------------------------------------------------------------
Indices(v) == 0 .. Len(v) - 1

InSampledRange(v, f) ==
    /\ Len(v) >= 1
    /\ v[1].m_frequency <= f
    /\ f <= v[Len(v)].m_frequency

\* (x, y) lies on the segment from (x0, y0) to (x1, y1), where x0 <= x <= x1
OnSegment(x, y, x0, y0, x1, y1) ==
    IF x1 # x0
    THEN RMul(RSub(y, y0), RInt(x1 - x0)) = RMul(RSub(y1, y0), RInt(x - x0))
    ELSE RLe(RMin(y0, y1), y) /\ RLe(y, RMax(y0, y1))

Turns == {-1, 0, 1}
Shift(p, k) == RAdd(p, RInt(2 * PI * k))

\* The same, for phases taken modulo 2 pi: some representatives of the three
\* phases lie on one segment, whose ends are at most pi apart
OnPhaseSegment(x, p, x0, p0, x1, p1) ==
    \E a \in Turns, b \in Turns, c \in Turns :
        /\ RLe(RAbs(RSub(Shift(p1, c), Shift(p0, b))), RPI)
        /\ OnSegment(x, Shift(p, a), x0, Shift(p0, b), x1, Shift(p1, c))

\* C3: for a vector with at least one point, sorted by frequency, and a
\* frequency inside the sampled range, the binary search of InterpolatePoint
\* ends with last_hi - last_lo <= 1 and frequency[last_lo] <= f <=
\* frequency[last_hi], and the returned amplitude and phase lie on the
\* segment between the points at last_lo and last_hi (the phase modulo 2 pi).
C3_SearchBracketsAndInterpolates ==
    (obs.op = "interp" /\ Sorted(rhs) /\ InSampledRange(rhs, obs.arg)) =>
        /\ obs.terminated
        /\ ~obs.ub
        /\ obs.last_hi - obs.last_lo <= 1
        /\ InRange(rhs, obs.last_lo) /\ InRange(rhs, obs.last_hi)
        /\ At(rhs, obs.last_lo).m_frequency <= obs.arg
        /\ obs.arg <= At(rhs, obs.last_hi).m_frequency
        /\ obs.point.m_frequency = obs.arg
        /\ OnSegment(obs.arg, obs.point.m_amplitude,
                     At(rhs, obs.last_lo).m_frequency, At(rhs, obs.last_lo).m_amplitude,
                     At(rhs, obs.last_hi).m_frequency, At(rhs, obs.last_hi).m_amplitude)
        /\ OnPhaseSegment(obs.arg, obs.point.m_phase,
                          At(rhs, obs.last_lo).m_frequency, At(rhs, obs.last_lo).m_phase,
                          At(rhs, obs.last_hi).m_frequency, At(rhs, obs.last_hi).m_phase)

\* A search over four points that ends strictly between two neighbours whose
\* phases are more than pi apart
C3_Witness ==
    /\ obs.op = "interp" /\ obs.branch = "search"
    /\ Len(rhs) = 4
    /\ obs.last_lo = 2 /\ obs.last_hi = 3
    /\ At(rhs, 2).m_frequency < obs.arg /\ obs.arg < At(rhs, 3).m_frequency
    /\ RLt(RPI, RAbs(RSub(At(rhs, 2).m_phase, At(rhs, 3).m_phase)))

\* C4: InterpolatePoint returns a defined point and reads only indices
\* inside the point sequence, for every vector (the point-less one of a
\* fresh SParameterVector included) and every frequency, also when vector
\* cascade calls it on its right operand.
C4_InterpolationNeverFails ==
    obs.op \in {"interp", "cascade"} =>
        /\ ~crashed
        /\ ~obs.ub
        /\ obs.reads \subseteq Indices(rhs)

PhasesInRange(v) ==
    \A i \in 1 .. Len(v) : RLe(RInt(-PI), v[i].m_phase) /\ RLe(v[i].m_phase, RPI)

Congruent(p, q) == \E k \in -2 .. 2 : p = Shift(q, k)

\* What the claim of C6 says of the state after lhs *= rhs
CascadePhasesWrapped ==
    /\ ~crashed
    /\ Len(lhs) = Len(obs.pre)
    /\ PhasesInRange(lhs)
    /\ \A i \in 1 .. Len(lhs) :
          Congruent(lhs[i].m_phase,
                    RAdd(obs.pre[i].m_phase,
                         InterpolatePoint(rhs, obs.pre[i].m_frequency, obs.g).point.m_phase))

\* C6: for two vectors whose stored phases lie in [-pi, pi], after lhs *= rhs
\* every phase of lhs lies in [-pi, pi] and is congruent modulo 2 pi to the
\* old phase plus the phase of rhs interpolated at the point's frequency.
C6_CascadePhaseWrapped ==
    (obs.op = "cascade" /\ PhasesInRange(obs.pre) /\ PhasesInRange(rhs)) =>
        CascadePhasesWrapped

\* The same for a right operand that holds at least one point
CascadePhaseWrappedNonEmptyRhs ==
    (obs.op = "cascade" /\ PhasesInRange(obs.pre) /\ PhasesInRange(rhs) /\ Len(rhs) >= 1) =>
        CascadePhasesWrapped

\* C7: GetGroupDelay(bin) returns 0 unless both points it uses are inside the
\* point sequence, and never reads an index at or past the sequence length.
C7_GroupDelayInBounds ==
    obs.op = "groupdelay" =>
        /\ ~crashed
        /\ obs.reads \subseteq Indices(rhs)
        /\ (obs.early => obs.finite /\ obs.val = RInt(0))
        /\ (~obs.early => \A i \in obs.reads : InRange(rhs, i))

\* ------------------------------------------------------------------------
\* Properties of the network model
\* ------------------------------------------------------------------------
\* C1: in every state reached by Allocate, Clear and the model cascade the
\* stored port pairs are exactly [1..m_nports] x [1..m_nports], so their
\* number is m_nports squared.
C1_KeysMatchPortCount ==
    /\ DOMAIN model.m_params = PortPairs(model.m_nports)
    /\ Cardinality(DOMAIN model.m_params) = model.m_nports * model.m_nports

\* C2: after Allocate(n), whatever the model held before, it holds exactly
\* n * n vectors, one per pair of [1..n] x [1..n], each without points, and
\* no key of the previous content.
C2_AllocateReplacesContent ==
    netobs.op = "Allocate" =>
        /\ DOMAIN model.m_params = PortPairs(netobs.arg)
        /\ Cardinality(DOMAIN model.m_params) = netobs.arg * netobs.arg
        /\ \A k \in DOMAIN model.m_params : model.m_params[k] = <<>>

\* A model whose entries are those of its port count
WellFormed(m) == DOMAIN m.m_params = PortPairs(m.m_nports)

\* C5: lhs *= rhs has exactly three outcomes: rhs without ports leaves lhs
\* unchanged; otherwise an empty lhs takes the port count of rhs and a copy
\* of each of its vectors; otherwise every vector of lhs is replaced by its
\* vector cascade with the vector of rhs for the same port pair.  Stated for
\* operands whose entries are those of their port count and, when both hold
\* ports, of equal port count.  (rhs is passed by const reference.)
C5_CascadeOutcomes ==
    LET l == netobs.pre
        r == netobs.rhs
    IN  (/\ netobs.op = "cascade"
         /\ WellFormed(l) /\ WellFormed(r)
         /\ (l.m_nports = 0 \/ r.m_nports = 0 \/ l.m_nports = r.m_nports)) =>
            /\ ~crashed
            /\ ~netobs.ub
            /\ IF r.m_nports = 0
               THEN model = l
               ELSE IF l.m_nports = 0
               THEN /\ model.m_nports = r.m_nports
                    /\ DOMAIN model.m_params = DOMAIN r.m_params
                    /\ \A k \in DOMAIN r.m_params : model.m_params[k] = r.m_params[k]
               ELSE /\ model.m_nports = l.m_nports
                    /\ DOMAIN model.m_params = DOMAIN l.m_params
                    /\ \A k \in DOMAIN l.m_params :
                          model.m_params[k]
                              = VectorCascade(l.m_params[k], r.m_params[k], netobs.g)

\* C8: SaveToFile on a model that does not hold exactly two ports (one that
\* was allocated and then cleared included) reports an error and leaves the
\* file as it was; so does a failed fopen; a file is written only for a
\* two-port model, in magnitude-angle form whatever the format asked for.
C8_SaveOnlyTwoPorts ==
    netobs.op = "SaveToFile" =>
        /\ (model.m_nports # 2 \/ DOMAIN model.m_params # PortPairs(2)) =>
              (file = netobs.fileBefore /\ netobs.log = "error")
        /\ ~netobs.written => (file = netobs.fileBefore /\ netobs.log = "error")
        /\ netobs.written => file.exists

\* ------------------------------------------------------------------------
\* Properties of the decoder
\* ------------------------------------------------------------------------
Kinds(symbols) == [i \in 1 .. Len(symbols) |-> symbols[i].m_stype]

\* C9: for a line reset, a JTAG-to-SWD sequence and a well-formed read
\* request with ACK = 0b001, 32 data bits and a data parity bit, Refresh()
\* emits exactly LINE_RESET, JTAG_TO_SWD, START, AP_NDP, R_NW, ADDRESS,
\* PARITY_OK, STOP, PARK, TURNAROUND, ACK, DATA and one parity symbol, which
\* is PARITY_OK when the parity bit is the even parity of the data bits and
\* PARITY_BAD otherwise.
C9_ReadTransactionSymbols ==
    (Done /\ swd.bits \in WellFormedReads) =>
        LET n == Len(swd.bits)
            data == Slice(swd.bits, n - DataBits, DataBits)
        IN  Kinds(swd.symbols) =
                << "TYPE_LINERESET", "TYPE_JTAGTOSWD", "TYPE_START", "TYPE_AP_NDP",
                   "TYPE_R_NW", "TYPE_ADDRESS", "TYPE_PARITY_OK", "TYPE_STOP",
                   "TYPE_PARK", "TYPE_TURNAROUND", "TYPE_ACK", "TYPE_DATA",
                   IF swd.bits[n] = EvenParity(data)
                   THEN "TYPE_PARITY_OK" ELSE "TYPE_PARITY_BAD" >>

\* A well-formed read with a wrong data parity bit, decoded to the end
C9_Witness ==
    /\ Done
    /\ swd.bits \in WellFormedReads
    /\ Len(swd.symbols) = 13
    /\ swd.symbols[13].m_stype = "TYPE_PARITY_BAD"
    /\ swd.symbols[12].m_stype = "TYPE_DATA"

LastKind == IF swd.emitted THEN swd.symbols[Len(swd.symbols)].m_stype ELSE "none"

\* After a PARITY_BAD or ERROR symbol of the request the decoder searches again
ErrorResyncs == LastKind \in {"TYPE_PARITY_BAD", "TYPE_ERROR"} => swd.state = "SEARCH"

\* The decoder can take a step as long as bits are left
NeverHalts == ~Done => ENABLED Refresh

\* Bits a symbol of the kind stands for
SymbolWidth(sym) ==
    CASE sym.m_stype = "TYPE_LINERESET" -> sym.m_data
      [] sym.m_stype = "TYPE_LEAVEDORMANT" -> c_magic_wakeuplen
      [] sym.m_stype \in {"TYPE_JTAGTOSWD", "TYPE_SWDTOJTAG", "TYPE_SWDTODORMANT"} ->
            c_magic_seqlen
      [] sym.m_stype = "TYPE_ADDRESS" -> AddressBits
      [] sym.m_stype = "TYPE_ACK" -> AckBits
      [] sym.m_stype = "TYPE_DATA" -> DataBits
      [] OTHER -> 1

\* A step consumes at least one bit and exactly the bits of the symbol it
\* emits; a step of the search that emits nothing (a low bit, a failed match
\* of a magic sequence included) consumes one bit; the input is not changed
\* and symbols are only appended
ConsumesEveryBit ==
    /\ swd'.bits = swd.bits
    /\ swd'.pos > swd.pos
    /\ swd'.pos <= Len(swd.bits) + 1
    /\ IF swd'.emitted
       THEN /\ Len(swd'.symbols) = Len(swd.symbols) + 1
            /\ SubSeq(swd'.symbols, 1, Len(swd.symbols)) = swd.symbols
            /\ swd'.pos = swd.pos + SymbolWidth(swd'.symbols[Len(swd'.symbols)])
       ELSE /\ swd'.symbols = swd.symbols
            /\ IF swd.state = "SEARCH" THEN swd'.pos = swd.pos + 1
               ELSE swd'.pos = Len(swd.bits) + 1

\* A wrong parity bit, a high stop bit and a low park bit are reported in band
MalformedReported ==
    LET b == swd.bits[swd.pos]
        kind == swd'.symbols[Len(swd'.symbols)].m_stype
    IN  /\ (swd.state \in {"PARITY", "DATA_PARITY"} /\ b # EvenParity(swd.req)) =>
              (swd'.emitted /\ kind = "TYPE_PARITY_BAD")
        /\ (swd.state = "STOP" /\ b # 0) => (swd'.emitted /\ kind = "TYPE_ERROR")
        /\ (swd.state = "PARK" /\ b # 1) => (swd'.emitted /\ kind = "TYPE_ERROR")

\* C10: on every input the decoder never halts on malformed input: a bad
\* parity bit and an unexpected stop or park bit are reported as PARITY_BAD
\* or ERROR symbols, after which the decoder searches again, and decoding
\* consumes every bit up to the end of the input, none skipped by a failed
\* match of a magic sequence.
C10_DecodesToEndOfInput ==
    /\ [](ErrorResyncs /\ NeverHalts)
    /\ [][ConsumesEveryBit /\ MalformedReported]_vars
    /\ <>Done

\* Decoding went on to the end of the input after an ERROR symbol
C10_Witness ==
    /\ Done
    /\ \E i \in 1 .. Len(swd.symbols) - 1 : swd.symbols[i].m_stype = "TYPE_ERROR"
    /\ \E i \in 1 .. Len(swd.symbols) : swd.symbols[i].m_stype = "TYPE_PARITY_BAD"

====
